---- MODULE Spec2Model ----
(***************************************************************************)
(* A model of cl (src/main.go): the command that resolves the imports of a *)
(* module, filters them, and hands them to the capslock analyzer to list,  *)
(* write or compare a capability baseline.                                 *)
(*                                                                         *)
(* One invocation of the command is a run of Main followed by analyse; the *)
(* model cuts analyse at every external interaction (go env, the package   *)
(* loader, go list, capslock, the file system).  The disk persists from    *)
(* one invocation to the next.                                             *)
(***************************************************************************)
EXTENDS Integers, Sequences, FiniteSets, TLC

(***************************************************************************)
(* Bounds of the model.                                                    *)
(***************************************************************************)
MaxPkgs == 2

(***************************************************************************)
(* Exit status codes, main.go:21-27.                                       *)
(***************************************************************************)
success == 0
internalError == 1
invocationError == 2
capChangeError == 4

(***************************************************************************)
(* Strings the code takes apart are sequences of one-character strings.    *)
(***************************************************************************)
PathA == <<"a">>
PathB == <<"B", "x">>
PathFmt == <<"f", "m", "t">>
PathSelf == <<"m", "/", "a">>
Paths == {PathA, PathB, PathFmt, PathSelf}

ModM == <<"m">>
ModN == <<"n">>

\* Byte values of the characters used, for sort.Strings.
Byte(c) ==
    CASE c = "/" -> 47
      [] c = "B" -> 66
      [] c = "a" -> 97
      [] c = "f" -> 102
      [] c = "m" -> 109
      [] c = "n" -> 110
      [] c = "t" -> 116
      [] c = "x" -> 120
      [] OTHER -> 0

\* strings.HasPrefix(s, prefix)
HasPrefix(s, prefix) ==
    /\ Len(prefix) <= Len(s)
    /\ SubSeq(s, 1, Len(prefix)) = prefix

\* s < t in Go's string order (bytewise lexicographic).
RECURSIVE StrLess(_, _)
StrLess(s, t) ==
    IF t = <<>> THEN FALSE
    ELSE IF s = <<>> THEN TRUE
    ELSE IF Byte(Head(s)) # Byte(Head(t)) THEN Byte(Head(s)) < Byte(Head(t))
    ELSE StrLess(Tail(s), Tail(t))

\* Insert x into the sorted sequence q.
RECURSIVE InsertSorted(_, _)
InsertSorted(x, q) ==
    IF q = <<>> THEN <<x>>
    ELSE IF StrLess(Head(q), x) THEN <<Head(q)>> \o InsertSorted(x, Tail(q))
    ELSE <<x>> \o q

\* sort.Strings(q)
RECURSIVE SortStrings(_)
SortStrings(q) ==
    IF q = <<>> THEN <<>> ELSE InsertSorted(Head(q), SortStrings(Tail(q)))

\* strings.Join(q, ",")
RECURSIVE Join(_)
Join(q) ==
    IF q = <<>> THEN <<>>
    ELSE IF Len(q) = 1 THEN Head(q)
    ELSE Head(q) \o <<",">> \o Join(Tail(q))

\* strings.TrimSpace(s), on a sequence of tokens.
IsSpace(c) == c \in {" ", "\n", "\t"}

RECURSIVE TrimLeft(_)
TrimLeft(s) ==
    IF s # <<>> /\ IsSpace(Head(s)) THEN TrimLeft(Tail(s)) ELSE s

RECURSIVE TrimRight(_)
TrimRight(s) ==
    IF s # <<>> /\ IsSpace(s[Len(s)]) THEN TrimRight(SubSeq(s, 1, Len(s) - 1)) ELSE s

TrimSpace(s) == TrimRight(TrimLeft(s))

(***************************************************************************)
(* Ignore patterns.  A pattern is a sequence of tokens: "^" anchors at the *)
(* start, ".*" matches any run of characters, "(" opens a group that is    *)
(* never closed (so the pattern does not compile), any other token is a    *)
(* literal character.                                                      *)
(***************************************************************************)
PatB == <<"B", ".*">>
PatF == <<"^", "f">>
PatBad == <<"(">>
IgnoreSets == {{}, {PatB}, {PatB, PatF}, {PatBad, PatB}}

\* regexp.Compile(p) fails
CompileFails(p) == \E k \in 1..Len(p) : p[k] = "("

\* The pattern toks matches a prefix of s.
RECURSIVE MatchHere(_, _)
MatchHere(toks, s) ==
    IF toks = <<>> THEN TRUE
    ELSE IF Head(toks) = ".*"
        THEN \E j \in 0..Len(s) : MatchHere(Tail(toks), SubSeq(s, j + 1, Len(s)))
    ELSE /\ s # <<>>
         /\ Head(s) = Head(toks)
         /\ MatchHere(Tail(toks), Tail(s))

\* (*regexp.Regexp).MatchString: an unanchored search.
MatchString(re, s) ==
    IF re # <<>> /\ Head(re) = "^"
        THEN MatchHere(Tail(re), s)
    ELSE \E j \in 0..Len(s) : MatchHere(re, SubSeq(s, j + 1, Len(s)))

\* matchers.match
match(m, s) == \E k \in 1..Len(m) : MatchString(m[k], s)

\* The orders in which a map with the key set S can be iterated.
Orders(S) ==
    {q \in [1..Cardinality(S) -> S] : \A x \in S : \E k \in 1..Cardinality(S) : q[k] = x}


(***************************************************************************)
(* The world outside the process.                                          *)
(***************************************************************************)
\* runtime.GOOS and runtime.GOARCH of the build.
RuntimeGOOS == "linux"
RuntimeGOARCH == "amd64"

\* os.DevNull
DevNull == <<"/dev/null">>

\* What `go env GOMOD` can print when it exits zero: nothing (the go tool is
\* not in module mode), the null device (no go.mod), or the path of go.mod.
GoModFile == <<"/mod/go.mod">>
GoEnvOutputs == {<<"\n">>, DevNull \o <<"\n">>, GoModFile \o <<"\n">>}

\* filepath.Dir, on the one path it is applied to.
FilepathDir(p) == IF p = GoModFile THEN "/mod" ELSE "."

\* The working directory of the process, a directory below the module root.
Cwd == "/mod/sub"
Dirs == {"/mod", Cwd}

\* filepath.Join(root, name)
FilepathJoin(dir, name) == <<dir, name>>
Files == {FilepathJoin(d, n) : d \in Dirs, n \in {"caps.summary", "caps.lock"}}

\* The packages the loader can find under the root: each belongs to a module
\* and imports a set of paths.
Modules == {ModM, ModN}
ImportSets == {{}, {PathA, PathB, PathFmt}, {PathSelf, PathA}, {PathSelf}}
PkgUniverse == [module : Modules, imports : ImportSets]
PkgSets == {S \in SUBSET PkgUniverse : Cardinality(S) <= MaxPkgs}

\* The loader returns the packages in an order of its own.
LoadOrder(S) == CHOOSE q \in Orders(S) : TRUE

\* `go list -f={{.Standard}} p` prints this when it exits zero.
GoListOutput(p) == IF p = PathFmt THEN <<"true", "\n">> ELSE <<"false", "\n">>

NoFile == [kind |-> "absent"]

(***************************************************************************)
(* The state.                                                              *)
(***************************************************************************)
VARIABLES
    pc,       \* where the process is: idle (not running), the next step of
              \* analyse, or exited
    flags,    \* the parsed command line
    ignorer,  \* the compiled ignore patterns
    root,     \* analyse's root
    pkgs,     \* the loaded packages
    imps,     \* import path -> the packages that import it
    todo,     \* the keys of imps the range loop has not visited
    imports,  \* the slice of import paths to analyse
    exit,     \* the exit status, once exited
    stdout,   \* what the process printed on standard output
    ext,      \* what the process did to the outside in this invocation
    disk      \* the files caps.summary and caps.lock of each directory

vars == <<pc, flags, ignorer, root, pkgs, imps, todo, imports, exit, stdout, ext, disk>>

NoFlags == [lock |-> FALSE, module |-> TRUE, list |-> FALSE, stdlib |-> FALSE,
            verbose |-> FALSE, goos |-> "", goarch |-> "", custom |-> "",
            noBuiltin |-> FALSE]

\* Nothing done yet: no `go env` run, no os.Getwd, no package load, no
\* `go list` run (and none failed), the imports not resolved, no capslock
\* run, no file written.
NoExt == [goenv |-> <<>>, getwd |-> 0, load |-> 0, golist |-> 0, stdfail |-> FALSE,
          resolved |-> FALSE, capslock |-> <<>>, writes |-> <<>>]

NoImps == [p \in {} |-> <<>>]

\* The memory of a process that is not running.
Cleared ==
    /\ flags = NoFlags
    /\ ignorer = <<>>
    /\ root = ""
    /\ pkgs = <<>>
    /\ imps = NoImps
    /\ todo = {}
    /\ imports = <<>>
    /\ exit = -1
    /\ stdout = <<>>
    /\ ext = NoExt

Init ==
    /\ pc = "idle"
    /\ Cleared
    /\ disk = [f \in Files |-> NoFile]

\* return code, from Main or analyse
Return(code) ==
    /\ pc' = "exited"
    /\ exit' = code


(***************************************************************************)
(* Main, main.go:33-62.                                                    *)
(***************************************************************************)
\* The command lines tried.
ArgSets ==
    [lock : BOOLEAN, module : BOOLEAN, list : BOOLEAN, stdlib : BOOLEAN,
     verbose : BOOLEAN, goos : {""}, goarch : {""}, custom : {"", "map.cm"},
     noBuiltin : BOOLEAN, ignore : IgnoreSets]

\* set.regexps: the patterns compiled in the order the map is ranged over;
\* nil and an error when one does not compile.
regexps(s, order) ==
    IF \E p \in s : CompileFails(p)
        THEN [re |-> <<>>, err |-> TRUE]
        ELSE [re |-> order, err |-> FALSE]

\* A slip in the test of main.go:47: the map is required to be given.
BuiltinWithoutMapInverted(args) == args.noBuiltin /\ args.custom # ""

\* -disable_builtin without -capability_map (main.go:47)
BuiltinWithoutMap(args) == args.noBuiltin /\ args.custom = ""

Main ==
    /\ pc = "idle"
    /\ \E args \in ArgSets :
       \E order \in Orders(args.ignore) :
          LET r == regexps(args.ignore, order)
          IN  /\ flags' = [lock |-> args.lock, module |-> args.module,
                           list |-> args.list, stdlib |-> args.stdlib,
                           verbose |-> args.verbose,
                           goos |-> IF args.goos = "" THEN RuntimeGOOS ELSE args.goos,
                           goarch |-> IF args.goarch = "" THEN RuntimeGOARCH ELSE args.goarch,
                           custom |-> args.custom, noBuiltin |-> args.noBuiltin]
              /\ ignorer' = r.re
              /\ IF BuiltinWithoutMap(args)
                    THEN Return(invocationError)
                 ELSE IF r.err
                    THEN Return(invocationError)
                 ELSE /\ pc' = "moduleRoot"
                      /\ exit' = exit
    /\ UNCHANGED <<root, pkgs, imps, todo, imports, stdout, ext, disk>>

(***************************************************************************)
(* moduleRoot, main.go:206-223.  run is what `go env GOMOD` did.           *)
(***************************************************************************)
GoEnvRuns == {[err |-> TRUE, out |-> <<>>]} \cup [err : {FALSE}, out : GoEnvOutputs]

moduleRoot(run) ==
    IF run.err
        THEN [root |-> "", valid |-> FALSE, err |-> TRUE]
    ELSE LET gomod == TrimSpace(run.out)
         IN  IF gomod = <<>>
                THEN [root |-> "", valid |-> TRUE, err |-> TRUE]
             ELSE IF gomod = DevNull
                THEN [root |-> "", valid |-> TRUE, err |-> TRUE]
             ELSE [root |-> FilepathDir(gomod), valid |-> TRUE, err |-> FALSE]

\* os.Getwd
GetwdRuns == {[err |-> TRUE, dir |-> ""], [err |-> FALSE, dir |-> Cwd]}

(***************************************************************************)
(* analyse, main.go:104-123: the root.                                     *)
(***************************************************************************)
AnalyseRoot ==
    /\ pc = "moduleRoot"
    /\ \E run \in GoEnvRuns :
          LET r == moduleRoot(run)
          IN  IF r.err
                 THEN /\ Return(IF r.valid THEN invocationError ELSE internalError)
                      /\ root' = r.root
                      /\ ext' = [ext EXCEPT !.goenv = Append(@, run)]
              ELSE IF ~flags.module
                 THEN \E wd \in GetwdRuns :
                         /\ ext' = [ext EXCEPT !.goenv = Append(@, run), !.getwd = @ + 1]
                         /\ root' = wd.dir
                         /\ IF wd.err
                               THEN Return(internalError)
                               ELSE pc' = "load" /\ exit' = exit
              ELSE /\ ext' = [ext EXCEPT !.goenv = Append(@, run)]
                   /\ root' = r.root
                   /\ pc' = "load"
                   /\ exit' = exit
    /\ UNCHANGED <<flags, ignorer, pkgs, imps, todo, imports, stdout, disk>>

(***************************************************************************)
(* analyse, main.go:125-153: the package load and the imps map.            *)
(***************************************************************************)
\* A slip in the loop body: the ignore patterns are not consulted.
RecordsUnfiltered(pkg, imp, ignore) ==
    /\ imp \in pkg.imports
    /\ ~HasPrefix(imp, pkg.module)

\* The loop body records imp for pkg (main.go:145-151).
Records(pkg, imp, ignore) ==
    /\ imp \in pkg.imports
    /\ ~HasPrefix(imp, pkg.module)
    /\ ~match(ignore, imp)

\* imps after the loops of main.go:143-153 over the packages ps.
Imps(ps, ignore) ==
    LET keys == {imp \in Paths : \E k \in 1..Len(ps) : Records(ps[k], imp, ignore)}
    IN  [imp \in keys |-> SelectSeq(ps, LAMBDA pkg : Records(pkg, imp, ignore))]

\* A slip in the order of the tests: -lock is looked at before -imports.
AfterResolveLockFirst ==
    IF flags.lock THEN "summary" ELSE IF flags.list THEN "list" ELSE "compare"

\* Where analyse goes once the range over imps is finished (main.go:168-190).
AfterResolve ==
    IF flags.list THEN "list" ELSE IF flags.lock THEN "summary" ELSE "compare"

LoopNext(left) == IF left = {} THEN AfterResolve ELSE "classify"

\* What packages.Load and packages.PrintErrors can report.
LoadRuns == {[err |-> "load", pkgs |-> {}], [err |-> "packages", pkgs |-> {}]}
            \cup [err : {"none"}, pkgs : PkgSets]

Load ==
    /\ pc = "load"
    /\ \E run \in LoadRuns :
          /\ IF run.err # "none"
                THEN /\ Return(internalError)
                     /\ UNCHANGED <<pkgs, imps, todo>>
                ELSE /\ pkgs' = LoadOrder(run.pkgs)
                     /\ imps' = Imps(pkgs', ignorer)
                     /\ todo' = DOMAIN imps'
                     /\ pc' = LoopNext(todo')
                     /\ exit' = exit
          /\ ext' = [ext EXCEPT !.load = @ + 1,
                                !.resolved = (run.err = "none" /\ todo' = {})]
    /\ UNCHANGED <<flags, ignorer, root, imports, stdout, disk>>

(***************************************************************************)
(* isStdlib, main.go:226-244.  run is what `go list` did.                  *)
(***************************************************************************)
GoListRuns(p) == {[err |-> TRUE, out |-> <<>>], [err |-> FALSE, out |-> GoListOutput(p)]}

isStdlib(run) ==
    IF run.err
        THEN [ok |-> FALSE, err |-> TRUE]
        ELSE [ok |-> TrimSpace(run.out) = <<"true">>, err |-> FALSE]

(***************************************************************************)
(* analyse, main.go:155-167: one iteration of the range over imps.         *)
(***************************************************************************)
\* A slip in the loop: the key just visited is visited again.
RangeStay(left, i) == left

\* The keys left to visit once the range loop has visited i (main.go:155).
RangeNext(left, i) == left \ {i}

Classify ==
    /\ pc = "classify"
    /\ \E i \in todo :
          /\ todo' = RangeNext(todo, i)
          /\ IF ~flags.stdlib
                THEN \E run \in GoListRuns(i) :
                        LET r == isStdlib(run)
                        IN  /\ ext' = [ext EXCEPT !.golist = @ + 1,
                                                  !.stdfail = r.err,
                                                  !.resolved = (~r.err /\ todo' = {})]
                            /\ IF r.err
                                  THEN Return(internalError) /\ imports' = imports
                               ELSE IF r.ok
                                  THEN /\ pc' = LoopNext(todo')
                                       /\ exit' = exit
                                       /\ imports' = imports
                               ELSE /\ pc' = LoopNext(todo')
                                    /\ exit' = exit
                                    /\ imports' = Append(imports, i)
                ELSE /\ ext' = [ext EXCEPT !.resolved = (todo' = {})]
                     /\ pc' = LoopNext(todo')
                     /\ exit' = exit
                     /\ imports' = Append(imports, i)
    /\ UNCHANGED <<flags, ignorer, root, pkgs, imps, stdout, disk>>

(***************************************************************************)
(* analyse, main.go:168-174: the listing.                                  *)
(***************************************************************************)
List ==
    /\ pc = "list"
    /\ imports' = SortStrings(imports)
    /\ stdout' = stdout \o imports'
    /\ Return(success)
    /\ UNCHANGED <<flags, ignorer, root, pkgs, imps, todo, ext, disk>>


(***************************************************************************)
(* capslock, main.go:250-273.  run is what the capslock process did, wr    *)
(* what os.WriteFile did.                                                  *)
(***************************************************************************)
\* The standard output of a capslock run that exits zero.  The bytes belong
\* to capslock: a comparison prints nothing or a difference, the other
\* formats print a report in that format.
Report(format) == [fmt |-> format]

CapslockOutputs(format) ==
    IF format = "compare" THEN {<<>>, <<"diff">>} ELSE {<<Report(format)>>}

CapslockRuns(format) ==
    {[err |-> TRUE, out |-> <<>>]} \cup [err : {FALSE}, out : CapslockOutputs(format)]

\* os.WriteFile succeeds, or fails leaving the file as it was.
WriteRuns == {"ok", "denied"}

WriteFile(path, data, wr) ==
    IF wr = "ok" THEN [disk EXCEPT ![path] = [kind |-> "data", bytes |-> data]] ELSE disk

\* The arguments of the capslock process (main.go:251-260).
CapslockArgs(format, path) ==
    <<"-goos", flags.goos, "-goarch", flags.goarch, "-output", format,
      "-packages", Join(imports)>>
    \o (IF format = "compare" THEN <<path>> ELSE <<>>)
    \o (IF flags.custom # ""
           THEN <<"capability_map", flags.custom>>
                \o (IF flags.noBuiltin THEN <<"disable_builtin">> ELSE <<>>)
           ELSE <<>>)

\* A slip in the return: the error of os.WriteFile is dropped.
WriteErrorDropped(wr) == FALSE

\* The error capslock returns after os.WriteFile (main.go:270-272).
WriteError(wr) == wr # "ok"

\* capslock's results: the buffer, the error, and its effects outside.
capslock(format, path, run, wr) ==
    LET call == Append(ext.capslock, [args |-> CapslockArgs(format, path), run |-> run])
    IN  IF run.err
           THEN [buf |-> <<>>, err |-> TRUE, disk |-> disk,
                 ext |-> [ext EXCEPT !.capslock = call]]
        ELSE IF format # "compare"
           THEN [buf |-> run.out, err |-> WriteError(wr),
                 disk |-> WriteFile(path, run.out, wr),
                 ext |-> [ext EXCEPT !.capslock = call,
                                     !.writes = Append(@, [file |-> path, result |-> wr])]]
        ELSE [buf |-> run.out, err |-> FALSE, disk |-> disk,
              ext |-> [ext EXCEPT !.capslock = call]]

(***************************************************************************)
(* analyse, main.go:175-183: the summary of a new baseline.                *)
(***************************************************************************)
WriteSummary ==
    /\ pc = "summary"
    /\ \E run \in CapslockRuns("verbose"), wr \in WriteRuns :
          LET r == capslock("verbose", FilepathJoin(root, "caps.summary"), run, wr)
          IN  /\ ext' = r.ext
              /\ disk' = r.disk
              /\ IF r.err
                    THEN Return(internalError) /\ stdout' = stdout
                    ELSE /\ stdout' = IF flags.verbose
                                         THEN stdout \o r.buf \o <<"\n">>
                                         ELSE stdout
                         /\ pc' = "lock"
                         /\ exit' = exit
    /\ UNCHANGED <<flags, ignorer, root, pkgs, imps, todo, imports>>

(***************************************************************************)
(* analyse, main.go:184-188 and 200: the lock file of a new baseline.      *)
(***************************************************************************)
WriteLock ==
    /\ pc = "lock"
    /\ \E run \in CapslockRuns("json"), wr \in WriteRuns :
          LET r == capslock("json", FilepathJoin(root, "caps.lock"), run, wr)
          IN  /\ ext' = r.ext
              /\ disk' = r.disk
              /\ Return(IF r.err THEN internalError ELSE success)
    /\ UNCHANGED <<flags, ignorer, root, pkgs, imps, todo, imports, stdout>>

(***************************************************************************)
(* analyse, main.go:190-200: the comparison with the lock file.            *)
(***************************************************************************)
\* A slip in the test of main.go:196: the statuses are exchanged.
CompareStatusInverted(buf) == IF Len(buf) # 0 THEN success ELSE capChangeError

\* The status of a comparison that printed buf (main.go:196-200).
CompareStatus(buf) == IF Len(buf) # 0 THEN capChangeError ELSE success

Compare ==
    /\ pc = "compare"
    /\ \E run \in CapslockRuns("compare"), wr \in WriteRuns :
          LET r == capslock("compare", FilepathJoin(root, "caps.lock"), run, wr)
          IN  /\ ext' = r.ext
              /\ disk' = r.disk
              /\ IF r.err
                    THEN Return(internalError) /\ stdout' = stdout
                    ELSE /\ stdout' = stdout \o r.buf
                         /\ Return(CompareStatus(r.buf))
    /\ UNCHANGED <<flags, ignorer, root, pkgs, imps, todo, imports>>

(***************************************************************************)
(* main, main.go:29-31: os.Exit ends the process; its memory is gone, the  *)
(* disk stays.                                                             *)
(***************************************************************************)
Exit ==
    /\ pc = "exited"
    /\ pc' = "idle"
    /\ flags' = NoFlags
    /\ ignorer' = <<>>
    /\ root' = ""
    /\ pkgs' = <<>>
    /\ imps' = NoImps
    /\ todo' = {}
    /\ imports' = <<>>
    /\ exit' = -1
    /\ stdout' = <<>>
    /\ ext' = NoExt
    /\ UNCHANGED <<disk>>

Next ==
    \/ Main
    \/ AnalyseRoot
    \/ Load
    \/ Classify
    \/ List
    \/ WriteSummary
    \/ WriteLock
    \/ Compare
    \/ Exit

Spec == Init /\ [][Next]_vars

(***************************************************************************)
(* Vocabulary of the properties.                                           *)
(***************************************************************************)
\* The three modes of analyse (main.go:168, 175, 189).
Listing == flags.list
WritingBaseline == ~flags.list /\ flags.lock
Comparing == ~flags.list /\ ~flags.lock

\* The -output and -packages arguments of a recorded capslock run.
CallFormat(c) == c.args[6]
CallPackages(c) == c.args[8]

SummaryFile == FilepathJoin(root, "caps.summary")
LockFile == FilepathJoin(root, "caps.lock")

\* The files this invocation has written.
WrittenFiles == {ext.writes[k].file : k \in {j \in 1..Len(ext.writes) : ext.writes[j].result = "ok"}}

\* `go list` classifies p as a standard-library package.
StdClassified(p) == TrimSpace(GoListOutput(p)) = <<"true">>

\* The import paths of the loaded packages, and the packages importing imp.
AllImports == UNION {pkgs[k].imports : k \in 1..Len(pkgs)}
Importers(imp) == {k \in 1..Len(pkgs) : imp \in pkgs[k].imports}

(***************************************************************************)
(* C1: an invocation with -disable_builtin and no -capability_map exits    *)
(* with the invocation-error status 2 and has done nothing outside the     *)
(* process: no `go env`, no package load, no `go list`, no capslock run,   *)
(* no file written, whatever the other flags and the ignore patterns.      *)
(***************************************************************************)
C1_DisableBuiltinNeedsMap ==
    (pc # "idle" /\ flags.noBuiltin /\ flags.custom = "") =>
        /\ pc = "exited"
        /\ exit = invocationError
        /\ ext = NoExt

C1_Witness ==
    /\ pc = "exited"
    /\ flags.noBuiltin
    /\ flags.custom = ""
    /\ flags.lock
    /\ ~flags.module
    /\ ignorer # <<>>
    /\ exit = invocationError

(***************************************************************************)
(* C2: with -imports, once the imports are resolved the process only lists *)
(* them: it exits 0, capslock is never run and no baseline file is read or *)
(* written, whatever -lock, -v, -capability_map and the disk are.          *)
(***************************************************************************)
C2_ImportsOnlyLists ==
    (flags.list /\ ext.resolved) =>
        /\ pc \in {"list", "exited"}
        /\ ext.capslock = <<>>
        /\ ext.writes = <<>>
        /\ pc = "exited" => exit = success

C2_Witness ==
    /\ pc = "exited"
    /\ flags.list
    /\ flags.lock
    /\ flags.verbose
    /\ flags.custom # ""
    /\ ext.resolved
    /\ imports # <<>>
    /\ disk[FilepathJoin("/mod", "caps.lock")] # NoFile
    /\ exit = success

(***************************************************************************)
(* C3: in compare mode, once the imports are resolved capslock runs once;  *)
(* when it exits zero its output is what the process printed, the exit     *)
(* status is 4 exactly when that output is not empty and 0 exactly when it *)
(* is empty.  Status 4 is returned in no other mode.                       *)
(***************************************************************************)
C3_CompareStatus ==
    /\ (pc = "exited" /\ Comparing /\ ext.resolved) =>
          /\ Len(ext.capslock) = 1
          /\ ~ext.capslock[1].run.err =>
                LET out == ext.capslock[1].run.out
                IN  /\ stdout = out
                    /\ exit = capChangeError <=> out # <<>>
                    /\ exit = success <=> out = <<>>
    /\ exit = capChangeError => Comparing

C3_Witness ==
    /\ pc = "exited"
    /\ Comparing
    /\ ext.resolved
    /\ ~ext.capslock[1].run.err
    /\ stdout = <<"diff">>
    /\ exit = capChangeError


C6_ExitByRootFailure ==
    \A k \in 1..Len(ext.goenv) :
       LET run == ext.goenv[k]
       IN  (~run.err /\ TrimSpace(run.out) \in {<<>>, DevNull}) =>
              /\ pc = "exited"
              /\ exit = IF TrimSpace(run.out) = <<>> THEN internalError ELSE invocationError
              /\ ext.load = 0
              /\ ext.golist = 0
              /\ ext.capslock = <<>>
              /\ ext.writes = <<>>

(***************************************************************************)
(* C7, as claimed: with -mod=false the root is the working directory and a *)
(* failing module-root query does not abort the invocation: os.Getwd is    *)
(* called in every invocation that gets past Main, whatever `go env GOMOD` *)
(* did, and the process goes on to load the packages under the working     *)
(* directory unless os.Getwd failed.                                       *)
(***************************************************************************)
C7_RootOnlyIfModule ==
    (~flags.module /\ pc \notin {"idle", "moduleRoot"} /\ ext # NoExt) =>
        /\ ext.getwd = 1
        /\ pc # "exited" => root = Cwd
        /\ (pc = "exited" /\ ext.load = 0) => root # Cwd

(***************************************************************************)
(* C8, as claimed: in every mode an invocation runs capslock at most once  *)
(* and `go env` at most once; `go list` runs at most once per import path  *)
(* the range loop has visited; after a failed `go list` the process has    *)
(* exited without a further `go list` or capslock run.                     *)
(***************************************************************************)
C8_OneAnalyzerRun ==
    /\ Len(ext.capslock) <= 1
    /\ Len(ext.goenv) <= 1
    /\ ext.golist <= Cardinality(DOMAIN imps \ todo)
    /\ ext.stdfail => pc = "exited" /\ ext.capslock = <<>>

(***************************************************************************)
(* C8, amended: an invocation runs capslock never when listing, at most    *)
(* once when comparing and at most twice when writing a baseline (verbose, *)
(* then json); it runs `go env` at most once; `go list` runs at most once  *)
(* per import path the range loop has visited, and not at all with         *)
(* -stdlib; after a failed `go list` the process has exited with status 1  *)
(* without a further `go list` or capslock run.                            *)
(***************************************************************************)
C8_ExternalRuns ==
    /\ Len(ext.capslock) <= IF Listing THEN 0 ELSE IF WritingBaseline THEN 2 ELSE 1
    /\ Len(ext.capslock) = 2 =>
          /\ CallFormat(ext.capslock[1]) = "verbose"
          /\ CallFormat(ext.capslock[2]) = "json"
    /\ Len(ext.goenv) <= 1
    /\ ext.golist <= Cardinality(DOMAIN imps \ todo)
    /\ flags.stdlib => ext.golist = 0
    /\ ext.stdfail =>
          /\ pc = "exited"
          /\ exit = internalError
          /\ ext.capslock = <<>>

C8_Witness ==
    /\ pc = "exited"
    /\ WritingBaseline
    /\ Len(ext.capslock) = 2
    /\ ext.golist = 2
    /\ Len(ext.goenv) = 1

(***************************************************************************)
(* C9: when writing a baseline, capslock runs for the summary (verbose)    *)
(* only once the imports are resolved, and for the lock file (json) only   *)
(* after the summary run exited zero and caps.summary was written; a       *)
(* capslock run that fails writes no file; a failed run or a failed write  *)
(* ends the process with status 1 and no later step; status 0 means both   *)
(* files were written by this invocation.                                  *)
(***************************************************************************)
C9_WriteBaselineOrder ==
    WritingBaseline =>
        LET calls == ext.capslock
            w == ext.writes
            ran == {k \in 1..Len(calls) : ~calls[k].run.err}
            failed == \/ \E k \in 1..Len(calls) : calls[k].run.err
                      \/ \E k \in 1..Len(w) : w[k].result # "ok"
        IN  /\ Len(calls) <= 2
            /\ Len(calls) >= 1 =>
                  /\ ext.resolved
                  /\ CallFormat(calls[1]) = "verbose"
            /\ Len(calls) = 2 =>
                  /\ CallFormat(calls[2]) = "json"
                  /\ ~calls[1].run.err
                  /\ w[1] = [file |-> SummaryFile, result |-> "ok"]
            /\ Len(w) = Cardinality(ran)
            /\ \A k \in 1..Len(w) : w[k].file = IF k = 1 THEN SummaryFile ELSE LockFile
            /\ failed =>
                  /\ pc = "exited"
                  /\ exit = internalError
                  /\ (calls[1].run.err \/ w[1].result # "ok") => Len(calls) = 1
            /\ (pc = "exited" /\ exit = success) =>
                  /\ w = <<[file |-> SummaryFile, result |-> "ok"],
                           [file |-> LockFile, result |-> "ok"]>>
                  /\ disk[SummaryFile] = [kind |-> "data", bytes |-> <<Report("verbose")>>]
                  /\ disk[LockFile] = [kind |-> "data", bytes |-> <<Report("json")>>]
            /\ pc = "lock" => WrittenFiles = {SummaryFile}

C9_Witness ==
    /\ pc = "exited"
    /\ WritingBaseline
    /\ flags.verbose
    /\ exit = success
    /\ stdout = <<Report("verbose"), "\n">>
    /\ WrittenFiles = {SummaryFile, LockFile}
    /\ imports # <<>>

(***************************************************************************)
(* C10, as claimed: no invocation ends having written one of caps.summary  *)
(* and caps.lock without the other, and only an invocation that writes a   *)
(* baseline writes either.                                                 *)
(***************************************************************************)
C10_BaselinePair ==
    /\ pc = "exited" => WrittenFiles \in {{}, {SummaryFile, LockFile}}
    /\ WrittenFiles # {} => WritingBaseline

====
